---- MODULE Spec2Model ----
(***************************************************************************)
(* A model of sunpy.map.mapcubed.MapCubed: an ordered collection of Maps   *)
(* (frames) of one shape and one scale, with its derived-cube algebra.     *)
(*                                                                         *)
(* Objects live on a heap (a sequence of Map records, addressed by their   *)
(* position); a MapCubed holds references (heap positions) in _maps and    *)
(* the metadata of each map in _meta.  Every public method is one action:  *)
(* the caller invokes it on the cube C (variable cube), the value or the   *)
(* exception it produces is left in result, and Discard models the caller  *)
(* dropping that value before the next call.                               *)
(***************************************************************************)
EXTENDS Integers, Sequences, FiniteSets, TLC

VARIABLES heap, owned, cube, op, result

vars == <<heap, owned, cube, op, result>>

(***************************************************************************)
(* Bounds of the model and the universe the caller's frames are drawn from *)
(***************************************************************************)
MaxFrames == 2

Vals == {0, 2}

Shapes == {<<1, 1>>, <<1, 2>>}

Dates == {1, 2}

Scales == {1, 2}

ArraysOf(s) == [1..s[1] -> [1..s[2] -> Vals]]

Arrays == UNION {ArraysOf(s) : s \in Shapes}

Metas == [date : Dates, cdelt : Scales]

Frames == [data : Arrays, meta : Metas]

(***************************************************************************)
(* The Map interface the cube consumes: data.shape, date, scale, meta.     *)
(***************************************************************************)
Shape(d) == <<Len(d), Len(d[1])>>

DateOf(m) == m.meta.date

ScaleOf(m) == m.meta.cdelt

Map(data, meta) == [data |-> data, meta |-> meta]

\* An object that is not a GenericMap, as a heap reference no Map has.
NotAMap == 0

IsGenericMap(h, x) == x \in 1..Len(h)

(***************************************************************************)
(* Python's exceptions: a type and the fixed message the code gives.  The  *)
(* messages of this file mention no frame index: index is NoIndex.         *)
(***************************************************************************)
NoIndex == -1

Raise(type, msg) == [kind |-> "error", type |-> type, msg |-> msg, index |-> NoIndex]

NoResult == [kind |-> "none"]

NoCube == [exists |-> FALSE, maps |-> <<>>, meta |-> <<>>]

(***************************************************************************)
(* list.sort(key=...) is a stable sort: its result is the one insertion    *)
(* sort produces when each element goes after the elements not above it.   *)
(***************************************************************************)
RECURSIVE InsertByKey(_, _, _)
InsertByKey(h, x, s) ==
    IF s = <<>> THEN <<x>>
    ELSE IF DateOf(h[x]) < DateOf(h[Head(s)])
         THEN <<x>> \o s
         ELSE <<Head(s)>> \o InsertByKey(h, x, Tail(s))

RECURSIVE SortMaps(_, _)
SortMaps(h, s) ==
    IF s = <<>> THEN <<>>
    ELSE InsertByKey(h, s[Len(s)], SortMaps(h, SubSeq(s, 1, Len(s) - 1)))

\* _sort_by_date: the only key the constructor ever sorts by.
SortByDate(h, s) == SortMaps(h, s)

(***************************************************************************)
(* MapCubed.__init__ with its orderby keyword: popped and never read.      *)
(***************************************************************************)
AllSameShape(h, maps) == \A i \in 1..Len(maps) : Shape(h[maps[i]].data) = Shape(h[maps[1]].data)

AllSameScaleSelf(h, maps) ==
    \A i \in 1..Len(maps) : ScaleOf(h[maps[i]]) = ScaleOf(h[maps[i]])

AllSameScale(h, maps) == \A i \in 1..Len(maps) : ScaleOf(h[maps[i]]) = ScaleOf(h[maps[1]])

NewCube(h, maps) == [exists |-> TRUE, maps |-> maps, meta |-> [i \in 1..Len(maps) |-> h[maps[i]].meta]]

MapCubedInit(h, args, orderby) ==
    IF \E i \in 1..Len(args) : ~IsGenericMap(h, args[i])
    THEN Raise("ValueError", "MapCubed expects pre-constructed map objects.")
    ELSE LET maps == SortByDate(h, args) IN
         IF ~AllSameShape(h, maps)
         THEN Raise("ValueError", "All Map data must have the same dimensions")
         ELSE IF ~AllSameScale(h, maps)
         THEN Raise("ValueError", "All Map data must have the same scale")
         ELSE [kind |-> "cube", cube |-> NewCube(h, maps)]

\* The keyword values a caller passes: the default "date", or None.
OrderBys == {"date", "none"}

\* The caller's argument list: its frames in order, followed (junk) by one
\* object that is no Map.
ArgsWith(n, junk) ==
    IF junk THEN [i \in 1..(n + 1) |-> IF i <= n THEN i ELSE NotAMap]
    ELSE [i \in 1..n |-> i]

Idle == [name |-> "idle"]

Construct ==
    /\ ~cube.exists
    /\ result = NoResult
    /\ \E orderby \in OrderBys, junk \in BOOLEAN :
         LET args == ArgsWith(owned, junk)
             r == MapCubedInit(heap, args, orderby)
         IN /\ op' = [name |-> "construct", args |-> args, orderby |-> orderby]
            /\ IF r.kind = "cube"
               THEN cube' = r.cube /\ result' = [kind |-> "constructed"]
               ELSE cube' = cube /\ result' = r
    /\ UNCHANGED <<heap, owned>>

(***************************************************************************)
(* Python indexing of a list of n elements: negative indices count from    *)
(* the end, a slice is clipped to the list.                                *)
(***************************************************************************)
Min2(a, b) == IF a < b THEN a ELSE b

Max2(a, b) == IF a > b THEN a ELSE b

PyNorm(k, n) == IF k < 0 THEN k + n ELSE k

PyInRange(k, n) == PyNorm(k, n) >= 0 /\ PyNorm(k, n) < n

PyAt(s, k) == s[PyNorm(k, Len(s)) + 1]

PySlice(s, lo, hi) == SubSeq(s, lo + 1, Min2(hi, Len(s)))

IndexError == Raise("IndexError", "list index out of range")

(***************************************************************************)
(* MapCubed.__getitem__: a Map for a key that selects one, otherwise a new *)
(* MapCubed of the selected list.                                          *)
(***************************************************************************)
GetItemInt(h, c, k) ==
    IF PyInRange(k, Len(c.maps))
    THEN [kind |-> "frame", id |-> PyAt(c.maps, k), ndim |-> 2]
    ELSE IndexError

GetItemSlice(h, c, lo, hi) == MapCubedInit(h, PySlice(c.maps, lo, hi), "date")

\* key = slice(None, None, -1): the list reversed, handed to MapCubed(...).
PyReversed(s) == [j \in 1..Len(s) |-> s[Len(s) + 1 - j]]

GetItemReversed(h, c) == MapCubedInit(h, PyReversed(c.maps), "date")

\* key a list of indices: self._maps[key] is list indexing, which takes none.
GetItemSequence(h, c, idx) ==
    Raise("TypeError", "list indices must be integers or slices, not list")

\* The lists of indices a caller passes: one or two positions of the cube.
IndexLists == UNION {[1..k -> 0..(MaxFrames - 1)] : k \in 1..2}

Ready == cube.exists /\ result = NoResult

GetItem ==
    /\ Ready
    /\ \/ \E k \in -1..MaxFrames :
            /\ op' = [name |-> "getitem", key |-> "int", k |-> k]
            /\ result' = GetItemInt(heap, cube, k)
       \/ \E lo \in 0..MaxFrames, hi \in 0..MaxFrames :
            /\ op' = [name |-> "getitem", key |-> "slice", lo |-> lo, hi |-> hi]
            /\ result' = GetItemSlice(heap, cube, lo, hi)
       \/ /\ op' = [name |-> "getitem", key |-> "reversed"]
          /\ result' = GetItemReversed(heap, cube)
       \/ \E idx \in IndexLists :
            /\ op' = [name |-> "getitem", key |-> "list", idx |-> idx]
            /\ result' = GetItemSequence(heap, cube, idx)
    /\ UNCHANGED <<heap, owned, cube>>

(***************************************************************************)
(* MapCubed.meta(key): the key's value in every frame, one value if they   *)
(* are all equal.                                                          *)
(***************************************************************************)
MetaKeys == {"date", "cdelt"}

MetaGet(m, key) == IF key = "date" THEN m.date ELSE m.cdelt

MetaOfNeverCollapsed(c, key) ==
    [kind |-> "list", val |-> [i \in 1..Len(c.meta) |-> MetaGet(c.meta[i], key)]]

MetaOf(c, key) ==
    LET res == [i \in 1..Len(c.meta) |-> MetaGet(c.meta[i], key)] IN
    IF \A i \in 1..Len(res) : res[i] = res[1]
    THEN IF res = <<>> THEN IndexError
         ELSE [kind |-> "list", val |-> <<res[1]>>]
    ELSE [kind |-> "list", val |-> res]

Meta ==
    /\ Ready
    /\ \E key \in MetaKeys :
         /\ op' = [name |-> "meta", key |-> key]
         /\ result' = MetaOf(cube, key)
    /\ UNCHANGED <<heap, owned, cube>>

(***************************************************************************)
(* numpy arithmetic.  An integer array is a sequence of rows of integers;  *)
(* true division (from __future__ import division) gives floats, modelled  *)
(* as exact fractions <<numerator, denominator>> in lowest terms with a    *)
(* positive denominator; x/0 is <<1,0>> (inf), <<-1,0>> (-inf) or <<0,0>>  *)
(* (nan).  Operands of different shapes are broadcast.                     *)
(***************************************************************************)
Abs(x) == IF x < 0 THEN -x ELSE x

Sign(x) == IF x < 0 THEN -1 ELSE IF x > 0 THEN 1 ELSE 0

RECURSIVE Gcd(_, _)
Gcd(a, b) == IF b = 0 THEN a ELSE Gcd(b, a % b)

TrueDiv(a, b) ==
    IF b = 0 THEN <<Sign(a), 0>>
    ELSE LET g == Gcd(Abs(a), Abs(b)) IN <<Sign(b) * (a \div g), Abs(b) \div g>>

Broadcastable(s, t) == \A k \in 1..2 : s[k] = t[k] \/ s[k] = 1 \/ t[k] = 1

BroadcastShape(s, t) == <<Max2(s[1], t[1]), Max2(s[2], t[2])>>

\* Element (r, c) of array a seen through broadcasting.
At(a, r, c) == a[IF Len(a) = 1 THEN 1 ELSE r][IF Len(a[1]) = 1 THEN 1 ELSE c]

BroadcastError == Raise("ValueError", "operands could not be broadcast together")

ArraySub(a, b) ==
    LET s == BroadcastShape(Shape(a), Shape(b)) IN
    [r \in 1..s[1] |-> [c \in 1..s[2] |-> At(a, r, c) - At(b, r, c)]]

ArrayDiv(a, b) ==
    LET s == BroadcastShape(Shape(a), Shape(b)) IN
    [r \in 1..s[1] |-> [c \in 1..s[2] |-> TrueDiv(At(a, r, c), At(b, r, c))]]

RECURSIVE SumSeq(_)
SumSeq(s) == IF s = <<>> THEN 0 ELSE Head(s) + SumSeq(Tail(s))

(***************************************************************************)
(* all_maps_same_shape, as_array and the data property.                    *)
(***************************************************************************)
AllMapsSameShape(h, c) ==
    \A i \in 1..Len(c.maps) : Shape(h[c.maps[i]].data) = Shape(h[c.maps[1]].data)

SwapAxes01(a) == [j \in 1..Len(a[1]) |-> [i \in 1..Len(a) |-> a[i][j]]]

SwapAxes12Skipped(a) == a

SwapAxes12(a) ==
    [i \in 1..Len(a) |-> [k \in 1..Len(a[1][1]) |-> [j \in 1..Len(a[1]) |-> a[i][j][k]]]]

AsArrayOf(h, c) ==
    IF AllMapsSameShape(h, c)
    THEN IF c.maps = <<>>
         THEN Raise("ValueError", "bad axis2 argument to swapaxes")
         ELSE LET stacked == [i \in 1..Len(c.maps) |-> h[c.maps[i]].data] IN
              [kind |-> "volume", vol |-> SwapAxes12(SwapAxes01(stacked))]
    ELSE Raise("ValueError", "Not all maps have the same shape.")

\* data[:, :, i] = m.data: m.data is broadcast to the shape of frame 0.
Assignable(s, target) == \A k \in 1..2 : s[k] = target[k] \/ s[k] = 1

DataOf(h, c) ==
    IF c.maps = <<>> THEN IndexError
    ELSE LET s0 == Shape(h[c.maps[1]].data) IN
         IF \E i \in 1..Len(c.maps) : ~Assignable(Shape(h[c.maps[i]].data), s0)
         THEN Raise("ValueError", "could not broadcast input array")
         ELSE [kind |-> "volume",
               vol |-> [r \in 1..s0[1] |-> [k \in 1..s0[2] |->
                          [i \in 1..Len(c.maps) |-> At(h[c.maps[i]].data, r, k)]]]]

AsArray ==
    /\ Ready
    /\ op' = [name |-> "as_array"]
    /\ result' = AsArrayOf(heap, cube)
    /\ UNCHANGED <<heap, owned, cube>>

Data ==
    /\ Ready
    /\ op' = [name |-> "data"]
    /\ result' = DataOf(heap, cube)
    /\ UNCHANGED <<heap, owned, cube>>

(***************************************************************************)
(* MapCubed.mean(mapcube_index): np.mean of the whole data volume (no      *)
(* axis given: one number), wrapped with the chosen frame's metadata.      *)
(***************************************************************************)
NpMean(vol) ==
    LET rows == Len(vol)
        cols == Len(vol[1])
        n == Len(vol[1][1])
        total == SumSeq([r \in 1..rows |-> SumSeq([k \in 1..cols |-> SumSeq(vol[r][k])])])
    IN TrueDiv(total, rows * cols * n)

MeanOf(h, c, index) ==
    LET d == DataOf(h, c) IN
    IF d.kind = "error" THEN d
    ELSE IF ~PyInRange(index, Len(c.meta)) THEN IndexError
    ELSE [kind |-> "newframe", frame |-> Map([scalar |-> NpMean(d.vol)], PyAt(c.meta, index))]

Mean ==
    /\ Ready
    /\ \E index \in 0..MaxFrames :
         LET r == MeanOf(heap, cube, index) IN
         /\ op' = [name |-> "mean", index |-> index]
         /\ IF r.kind = "newframe"
            THEN /\ heap' = Append(heap, r.frame)
                 /\ result' = [kind |-> "frame", id |-> Len(heap) + 1, ndim |-> 0]
            ELSE /\ heap' = heap
                 /\ result' = r
    /\ UNCHANGED <<owned, cube>>

(***************************************************************************)
(* Building a new cube from maps a method has just created: the maps are   *)
(* new objects at the end of the heap, handed to MapCubed(...).            *)
(***************************************************************************)
Derived(h, frames) ==
    LET h2 == h \o frames
        r == MapCubedInit(h2, [j \in 1..Len(frames) |-> Len(h) + j], "date")
    IN IF r.kind = "cube" THEN [kind |-> "newcube", heap |-> h2, cube |-> r.cube] ELSE r

\* The first exception of a loop whose passes are in steps, if any pass raises.
FirstError(steps) ==
    LET bad == {j \in 1..Len(steps) : steps[j].kind = "error"} IN
    steps[CHOOSE j \in bad : \A k \in bad : j <= k]

HasError(steps) == \E j \in 1..Len(steps) : steps[j].kind = "error"

(***************************************************************************)
(* MapCubed.running_difference(offset, use_offset_for_meta)                *)
(***************************************************************************)
MetaChoices == {"mean", "ahead", "behind", "bogus"}

Unrecognized ==
    Raise("ValueError", "The value of the keyword \"use_offset_for_meta\" has not been recognized.")

\* One pass of the loop, for i (from 0).
RunningStep(h, c, i, offset, choice) ==
    LET n == Len(c.maps) IN
    IF ~PyInRange(i + offset, n) \/ ~PyInRange(i, n) THEN IndexError
    ELSE LET ahead == h[PyAt(c.maps, i + offset)]
             behind == h[PyAt(c.maps, i)]
         IN IF ~Broadcastable(Shape(ahead.data), Shape(behind.data)) THEN BroadcastError
            ELSE IF choice = "ahead"
                 THEN [kind |-> "map", frame |-> Map(ArraySub(ahead.data, behind.data), ahead.meta)]
            ELSE IF choice = "behind"
                 THEN [kind |-> "map", frame |-> Map(ArraySub(ahead.data, behind.data), behind.meta)]
            ELSE Unrecognized

RunningDifferenceOf(h, c, offset, choice) ==
    LET count == Max2(0, Len(c.maps) - offset)
        steps == [j \in 1..count |-> RunningStep(h, c, j - 1, offset, choice)]
    IN IF HasError(steps) THEN FirstError(steps)
       ELSE Derived(h, [j \in 1..count |-> steps[j].frame])

Offsets == -1..MaxFrames

RunningDifference ==
    /\ Ready
    /\ \E offset \in Offsets, choice \in MetaChoices :
         LET r == RunningDifferenceOf(heap, cube, offset, choice) IN
         /\ op' = [name |-> "running_difference", offset |-> offset, choice |-> choice]
         /\ IF r.kind = "newcube"
            THEN heap' = r.heap /\ result' = [kind |-> "cube", cube |-> r.cube]
            ELSE heap' = heap /\ result' = r
    /\ UNCHANGED <<owned, cube>>

(***************************************************************************)
(* MapCubed.base_difference(base, fraction): base is an index into the     *)
(* cube or a map of the caller's.                                          *)
(***************************************************************************)
ShapeError ==
    Raise("ValueError", "Base map does not have the same shape as the maps in the input mapcube.")

\* What 1.0 is to numpy's broadcasting: a single float.
One == <<<<1>>>>

BaseStepReversed(m, base_data, relative) ==
    IF ~Broadcastable(Shape(m.data), Shape(base_data)) THEN BroadcastError
    ELSE [kind |-> "map", frame |-> Map(ArrayDiv(ArraySub(base_data, m.data), relative), m.meta)]

BaseStep(m, base_data, relative) ==
    IF ~Broadcastable(Shape(m.data), Shape(base_data)) THEN BroadcastError
    ELSE [kind |-> "map", frame |-> Map(ArrayDiv(ArraySub(m.data, base_data), relative), m.meta)]

BaseDifferenceData(h, c, base_data, fraction) ==
    IF c.maps = <<>> THEN IndexError
    ELSE IF Shape(base_data) # Shape(h[c.maps[1]].data) THEN ShapeError
    ELSE LET relative == IF fraction THEN base_data ELSE One
             steps == [j \in 1..Len(c.maps) |-> BaseStep(h[c.maps[j]], base_data, relative)]
         IN IF HasError(steps) THEN FirstError(steps)
            ELSE Derived(h, [j \in 1..Len(steps) |-> steps[j].frame])

BaseDifferenceIndex(h, c, base, fraction) ==
    LET b == GetItemInt(h, c, base) IN
    IF b.kind = "error" THEN b
    ELSE BaseDifferenceData(h, c, h[b.id].data, fraction)

BaseDifference ==
    /\ Ready
    /\ \E fraction \in BOOLEAN :
         \/ \E base \in -1..MaxFrames :
              LET r == BaseDifferenceIndex(heap, cube, base, fraction) IN
              /\ op' = [name |-> "base_difference", base |-> "index", index |-> base,
                        fraction |-> fraction]
              /\ IF r.kind = "newcube"
                 THEN heap' = r.heap /\ result' = [kind |-> "cube", cube |-> r.cube]
                 ELSE heap' = heap /\ result' = r
         \/ \E base \in Arrays :
              LET r == BaseDifferenceData(heap, cube, base, fraction) IN
              /\ op' = [name |-> "base_difference", base |-> "map", data |-> base,
                        fraction |-> fraction]
              /\ IF r.kind = "newcube"
                 THEN heap' = r.heap /\ result' = [kind |-> "cube", cube |-> r.cube]
                 ELSE heap' = heap /\ result' = r
    /\ UNCHANGED <<owned, cube>>

(***************************************************************************)
(* The transforms of one Map that the cube applies map by map.  GenericMap *)
(* is not part of this file; each returns a new Map and leaves its         *)
(* receiver alone.  submap keeps the columns lo+1..hi of the data,         *)
(* resample gives data of the requested shape by nearest-neighbour         *)
(* sampling.                                                               *)
(***************************************************************************)
MapSubmap(m, lo, hi) ==
    Map([r \in 1..Len(m.data) |-> SubSeq(m.data[r], lo + 1, Min2(hi, Len(m.data[r])))], m.meta)

MapResample(m, shape) ==
    Map([r \in 1..shape[1] |-> [c \in 1..shape[2] |->
           m.data[(((r - 1) * Len(m.data)) \div shape[1]) + 1]
                 [(((c - 1) * Len(m.data[1])) \div shape[2]) + 1]]], m.meta)

\* A Map is a value here; the copy becomes a new object when Derived puts it
\* on the heap.
deepcopy(m) == m

(***************************************************************************)
(* MapCubed.submap, MapCubed.resample: a new cube of the transformed maps. *)
(* MapCubed.subcube: returns self.                                         *)
(***************************************************************************)
ColumnRanges == {<<0, 1>>, <<0, 2>>, <<1, 2>>}

SubmapOf(h, c, lo, hi) ==
    Derived(h, [j \in 1..Len(c.maps) |-> MapSubmap(deepcopy(h[c.maps[j]]), lo, hi)])

ResampleOf(h, c, shape) ==
    Derived(h, [j \in 1..Len(c.maps) |-> MapResample(h[c.maps[j]], shape)])

Submap ==
    /\ Ready
    /\ \E range \in ColumnRanges :
         LET r == SubmapOf(heap, cube, range[1], range[2]) IN
         /\ op' = [name |-> "submap", range |-> range]
         /\ IF r.kind = "newcube"
            THEN heap' = r.heap /\ result' = [kind |-> "cube", cube |-> r.cube]
            ELSE heap' = heap /\ result' = r
    /\ UNCHANGED <<owned, cube>>

Resample ==
    /\ Ready
    /\ \E shape \in Shapes :
         LET r == ResampleOf(heap, cube, shape) IN
         /\ op' = [name |-> "resample", shape |-> shape]
         /\ IF r.kind = "newcube"
            THEN heap' = r.heap /\ result' = [kind |-> "cube", cube |-> r.cube]
            ELSE heap' = heap /\ result' = r
    /\ UNCHANGED <<owned, cube>>

\* The value of a call that returns the cube it was called on.
Self == [kind |-> "self"]

Subcube ==
    /\ Ready
    /\ \E range \in ColumnRanges :
         op' = [name |-> "subcube", range |-> range]
    /\ result' = Self
    /\ UNCHANGED <<heap, owned, cube>>

(***************************************************************************)
(* MapCubed.plot (axes, resample and plot settings left at their defaults) *)
(* returns an animation whose frames are drawn by updatefig.  The value of *)
(* the call carries what the closure holds and what the axes show:         *)
(*   image    the array last given to im.set_array                         *)
(*   removes  the list shared by plot and updatefig                        *)
(*   drawn    the overlay artists now on the axes                          *)
(*   removals for each artist made so far, how often remove() was called   *)
(*   last     what plot_function returned in the latest call               *)
(* An artist is named by its number of creation.  plot_function draws new  *)
(* artists on each call and returns them, as draw_limb does in the         *)
(* docstring example; the default plot_function returns none.              *)
(***************************************************************************)
MaxRenders == 3

MaxOverlays == 2

Animation(data) ==
    [kind |-> "animation", pc |-> "idle", i |-> 0, image |-> data,
     removes |-> <<>>, drawn |-> {}, removals |-> <<>>, last |-> {}, renders |-> 0]

PlotOf(h, c) ==
    IF Len(c.maps) = 0 THEN IndexError
    ELSE Animation(h[c.maps[1]].data)

Plot ==
    /\ Ready
    /\ op' = [name |-> "plot"]
    /\ result' = PlotOf(heap, cube)
    /\ UNCHANGED <<heap, owned, cube>>

\* artist.remove(), called on the artist popped from the front of removes
Remove(a, x) ==
    [a EXCEPT !.drawn = @ \ {x}, !.removals[x] = @ + 1]

ClearRemovesOnce(a) ==
    IF a.removes = <<>> THEN a
    ELSE Remove([a EXCEPT !.removes = Tail(@)], Head(a.removes))

\* while removes: removes.pop(0).remove()
RECURSIVE ClearRemoves(_)
ClearRemoves(a) ==
    IF a.removes = <<>> THEN a
    ELSE ClearRemoves(Remove([a EXCEPT !.removes = Tail(@)], Head(a.removes)))

\* removes += list(plot_function(fig, axes, self._maps[i])), the function
\* having drawn and returned k new artists
AddOverlays(a, k) ==
    LET made == Len(a.removals)
        new == [j \in 1..k |-> made + j]
    IN [a EXCEPT !.removes = @ \o new,
                 !.drawn = @ \cup {new[j] : j \in 1..k},
                 !.removals = @ \o [j \in 1..k |-> 0],
                 !.last = {new[j] : j \in 1..k}]

(***************************************************************************)
(* updatefig(i, ...), called by the animation for any frame number of its  *)
(* frames list, in three consecutive steps: the removal loop, the image    *)
(* and its settings, the call of plot_function.                            *)
(***************************************************************************)
UpdateFigClear ==
    /\ result.kind = "animation"
    /\ result.pc = "idle"
    /\ result.renders < MaxRenders
    /\ \E i \in 0..(Len(cube.maps) - 1) :
         /\ op' = [name |-> "updatefig", i |-> i]
         /\ result' = [ClearRemoves(result) EXCEPT !.pc = "cleared", !.i = i]
    /\ UNCHANGED <<heap, owned, cube>>

UpdateFigSetArray ==
    /\ result.kind = "animation"
    /\ result.pc = "cleared"
    /\ result' = [result EXCEPT !.pc = "image", !.image = heap[cube.maps[result.i + 1]].data]
    /\ UNCHANGED <<heap, owned, cube, op>>

UpdateFigOverlay ==
    /\ result.kind = "animation"
    /\ result.pc = "image"
    /\ \E k \in 0..MaxOverlays :
         result' = [AddOverlays(result, k) EXCEPT !.pc = "idle", !.renders = @ + 1]
    /\ UNCHANGED <<heap, owned, cube, op>>

(***************************************************************************)
(* The caller drops the value of the last call; the maps that call created *)
(* go with it.                                                             *)
(***************************************************************************)
Discard ==
    /\ result # NoResult
    /\ result' = NoResult
    /\ op' = Idle
    /\ heap' = SubSeq(heap, 1, owned)
    /\ UNCHANGED <<owned, cube>>

(***************************************************************************)
(* A frame is the caller's object: its data can be replaced from outside   *)
(* the cube at any time between two calls.                                 *)
(***************************************************************************)
Mutate ==
    /\ Ready
    /\ \E i \in 1..owned, a \in Arrays :
         /\ a # heap[i].data
         /\ heap' = [heap EXCEPT ![i].data = a]
    /\ op' = Idle
    /\ UNCHANGED <<owned, cube, result>>

Init ==
    /\ \E n \in 0..MaxFrames : heap \in [1..n -> Frames]
    /\ owned = Len(heap)
    /\ cube = NoCube
    /\ op = Idle
    /\ result = NoResult

Next ==
    \/ Construct
    \/ GetItem
    \/ Meta
    \/ AsArray
    \/ Data
    \/ Mean
    \/ RunningDifference
    \/ BaseDifference
    \/ Submap
    \/ Resample
    \/ Subcube
    \/ Mutate
    \/ Discard

Spec == Init /\ [][Next]_vars

(***************************************************************************)
(* The animation of a constructed cube: any cube of one-pixel frames of    *)
(* one scale, an empty one included, then plot and any order of updatefig  *)
(* calls.                                                                  *)
(***************************************************************************)
InitPlot ==
    /\ \E n \in 0..MaxFrames :
         heap \in [1..n -> {f \in Frames : Shape(f.data) = <<1, 1>> /\ f.meta = [date |-> 1, cdelt |-> 1]}]
    /\ owned = Len(heap)
    /\ cube = MapCubedInit(heap, ArgsWith(owned, FALSE), "date").cube
    /\ op = Idle
    /\ result = NoResult

NextPlot ==
    \/ Plot
    \/ UpdateFigClear
    \/ UpdateFigSetArray
    \/ UpdateFigOverlay
    \/ Discard

SpecPlot == InitPlot /\ [][NextPlot]_vars

(***************************************************************************)
(* Vocabulary of the properties below.                                     *)
(***************************************************************************)
\* The frames of cube C, in collection order, as they are on the heap now.
FrameAt(i) == heap[cube.maps[i]]

Size == Len(cube.maps)

\* C is a collection as the constructor leaves it: some frames, one shape.
Uniform == cube.exists /\ Size >= 1 /\ AllMapsSameShape(heap, cube)

Rows == Len(FrameAt(1).data)

Cols == Len(FrameAt(1).data[1])

\* The frames the caller passed to the constructor, in the order passed.
Passed == op.args

ShapesDiffer == \E i, j \in 1..Len(Passed) : Shape(heap[Passed[i]].data) # Shape(heap[Passed[j]].data)

ScalesDiffer == \E i, j \in 1..Len(Passed) : ScaleOf(heap[Passed[i]]) # ScaleOf(heap[Passed[j]])

DimensionsMessage == "All Map data must have the same dimensions"

ScaleMessage == "All Map data must have the same scale"

ConstructedFromMaps ==
    /\ op.name = "construct"
    /\ \A i \in 1..Len(Passed) : IsGenericMap(heap, Passed[i])

(***************************************************************************)
(* C1 (as amended): construct(frames) fails with a ValueError whenever the *)
(* frames do not all have the same 2-D shape (the dimensions message) or,  *)
(* their shapes agreeing, do not all have the same scale (the scale        *)
(* message); the error is that fixed message and names no frame index, and *)
(* no collection is created.  When all frames agree in shape and scale,    *)
(* construction succeeds.                                                  *)
(***************************************************************************)
C1_ConstructValidates ==
    ConstructedFromMaps =>
        IF ShapesDiffer
        THEN /\ result.kind = "error" /\ result.type = "ValueError"
             /\ result.msg = DimensionsMessage /\ result.index = NoIndex
             /\ ~cube.exists
        ELSE IF ScalesDiffer
        THEN /\ result.kind = "error" /\ result.type = "ValueError"
             /\ result.msg = ScaleMessage /\ result.index = NoIndex
             /\ ~cube.exists
        ELSE result.kind = "constructed" /\ cube.exists

\* Two frames or more of one shape, the scale of one differing: construction
\* failed.
C1_Witness ==
    /\ ConstructedFromMaps /\ Len(Passed) >= 2
    /\ ~ShapesDiffer /\ ScalesDiffer
    /\ result.kind = "error" /\ result.msg = ScaleMessage

\* C1 as stated: the error also names the index of a frame that differs from
\* another one in shape (in scale).
C1_ErrorNamesOffendingIndex ==
    ConstructedFromMaps =>
        IF ShapesDiffer \/ ScalesDiffer
        THEN /\ result.kind = "error"
             /\ ~cube.exists
             /\ \/ /\ ShapesDiffer /\ result.msg = DimensionsMessage
                   /\ result.index \in 0..(Len(Passed) - 1)
                   /\ \E j \in 1..Len(Passed) :
                        Shape(heap[Passed[j]].data) # Shape(heap[Passed[result.index + 1]].data)
                \/ /\ ScalesDiffer /\ result.msg = ScaleMessage
                   /\ result.index \in 0..(Len(Passed) - 1)
                   /\ \E j \in 1..Len(Passed) :
                        ScaleOf(heap[Passed[j]]) # ScaleOf(heap[Passed[result.index + 1]])
        ELSE result.kind = "constructed" /\ cube.exists

(***************************************************************************)
(* C2: every collection that exists has at least one frame: the cube the   *)
(* caller constructed, and every cube a method returns (a slice, a running *)
(* difference, a base difference).                                         *)
(***************************************************************************)
C2_NeverEmpty ==
    /\ cube.exists => Len(cube.maps) >= 1
    /\ result.kind = "cube" => Len(result.cube.maps) >= 1

\* The key a caller selects with orderby: the date, or none (all frames equal).
KeyOf(orderby, m) == IF orderby = "date" THEN DateOf(m) ELSE 0

(***************************************************************************)
(* C3: construct(frames, sort_key=k) yields the input frames in ascending  *)
(* order of the key the caller selected (the date by default; None selects *)
(* no key, every frame comparing equal), frames of equal key in their      *)
(* input order, no frame dropped or duplicated.                            *)
(***************************************************************************)
C3_SortedBySelectedKey ==
    (op.name = "construct" /\ result.kind = "constructed") =>
        /\ Len(cube.maps) = Len(Passed)
        /\ \A x \in 1..Len(Passed) : \E i \in 1..Size : cube.maps[i] = Passed[x]
        /\ \A i, j \in 1..Size :
             i < j => /\ KeyOf(op.orderby, FrameAt(i)) <= KeyOf(op.orderby, FrameAt(j))
                      /\ KeyOf(op.orderby, FrameAt(i)) = KeyOf(op.orderby, FrameAt(j))
                           => cube.maps[i] < cube.maps[j]

(***************************************************************************)
(* C4: for 1 <= offset < n, running_difference(offset) with the metadata   *)
(* choice left at its default ("mean"), or "ahead" or "behind", returns a  *)
(* new collection of n - offset frames, frame i holding                    *)
(* C[i+offset].data - C[i].data.                                           *)
(***************************************************************************)
C4_RunningDifference ==
    (/\ op.name = "running_difference" /\ Uniform
     /\ op.choice \in {"mean", "ahead", "behind"}
     /\ 1 <= op.offset /\ op.offset < Size) =>
        /\ result.kind = "cube"
        /\ Len(result.cube.maps) = Size - op.offset
        /\ \A i \in 1..(Size - op.offset) :
             /\ result.cube.maps[i] > owned
             /\ heap[result.cube.maps[i]].data
                  = [r \in 1..Rows |-> [c \in 1..Cols |->
                       FrameAt(i + op.offset).data[r][c] - FrameAt(i).data[r][c]]]

(***************************************************************************)
(* C5: running_difference with a metadata choice that is no recognized     *)
(* option fails, whatever the collection and the offset, also when the     *)
(* offset leaves no frame to produce.                                      *)
(***************************************************************************)
C5_UnrecognizedChoiceFails ==
    (/\ op.name = "running_difference" /\ Uniform
     /\ op.choice = "bogus" /\ op.offset >= 0) =>
        result = Unrecognized

\* The base of the base_difference call just made, and when the claim covers it.
BaseData ==
    IF op.base = "index" THEN heap[PyAt(cube.maps, op.index)].data ELSE op.data

BaseDefined ==
    /\ op.base = "index" => PyInRange(op.index, Size)
    /\ Shape(BaseData) = <<Rows, Cols>>
    /\ op.fraction => \A r \in 1..Rows, c \in 1..Cols : BaseData[r][c] # 0

\* q, a fraction <<numerator, denominator>>, is the quotient of a by b.
IsQuotient(q, a, b) == q[2] > 0 /\ q[1] * b = a * q[2]

(***************************************************************************)
(* C6: for a collection C of frames of one shape and a base B of that      *)
(* shape (C[base] for an index, the data of the map for a map),            *)
(* base_difference returns a new collection of len(C) frames, frame i      *)
(* holding (C[i].data - B) / (B if fractional else 1) and the metadata of  *)
(* C[i]; with an index and fractional false the frame at that index is all *)
(* zeros.  (Fractional: for B without zero entries.)                       *)
(***************************************************************************)
C6_BaseDifference ==
    (op.name = "base_difference" /\ Uniform /\ BaseDefined) =>
        /\ result.kind = "cube"
        /\ Len(result.cube.maps) = Size
        /\ \A i \in 1..Size :
             LET new == heap[result.cube.maps[i]] IN
             /\ result.cube.maps[i] > owned
             /\ new.meta = FrameAt(i).meta
             /\ result.cube.meta[i] = FrameAt(i).meta
             /\ Shape(new.data) = <<Rows, Cols>>
             /\ \A r \in 1..Rows, c \in 1..Cols :
                  /\ IsQuotient(new.data[r][c], FrameAt(i).data[r][c] - BaseData[r][c],
                                IF op.fraction THEN BaseData[r][c] ELSE 1)
                  /\ (op.base = "index" /\ ~op.fraction /\ i = PyNorm(op.index, Size) + 1)
                       => new.data[r][c] = <<0, 1>>

\* A fractional base difference of two frames or more, one of which differs
\* from the base.
C6_Witness ==
    /\ op.name = "base_difference" /\ Uniform /\ BaseDefined
    /\ op.fraction /\ Size >= 2
    /\ result.kind = "cube"
    /\ \E i \in 1..Size : heap[result.cube.maps[i]].data[1][1] = <<-1, 1>>

(***************************************************************************)
(* C7: for a collection of n frames of shape S, mean() returns one frame   *)
(* whose data has shape S and is, pixel by pixel, the mean of that pixel   *)
(* over the n frames, with the metadata of frame mapcube_index (0 by       *)
(* default).                                                               *)
(***************************************************************************)
C7_MeanIsPixelwise ==
    (op.name = "mean" /\ Uniform /\ op.index < Size) =>
        /\ result.kind = "frame"
        /\ heap[result.id].meta = FrameAt(op.index + 1).meta
        /\ result.ndim = 2
        /\ heap[result.id].data
             = [r \in 1..Rows |-> [c \in 1..Cols |->
                  TrueDiv(SumSeq([i \in 1..Size |-> FrameAt(i).data[r][c]]), Size)]]

\* result is the volume of C's frames, axes (row, column, frame).
VolumeOfFrames ==
    /\ result.kind = "volume"
    /\ Len(result.vol) = Rows
    /\ \A r \in 1..Rows :
         /\ Len(result.vol[r]) = Cols
         /\ \A c \in 1..Cols :
              /\ Len(result.vol[r][c]) = Size
              /\ \A i \in 1..Size : result.vol[r][c][i] = FrameAt(i).data[r][c]

(***************************************************************************)
(* C8: for a collection of n frames all of shape (R, K), as_array returns  *)
(* a volume of shape (R, K, n) with volume[r, c, i] = C[i].data[r, c]; the *)
(* call leaves the frames and the collection as they were.                 *)
(***************************************************************************)
C8_VolumeAxisOrder ==
    [][(op'.name = "as_array" /\ op.name = "idle" /\ Uniform)
         => (VolumeOfFrames' /\ heap' = heap /\ cube' = cube)]_vars

\* The volume of two frames or more of shape (1, 2) that differ.
C8_Witness ==
    /\ op.name = "as_array" /\ Uniform /\ Size >= 2 /\ Cols = 2
    /\ result.kind = "volume"
    /\ result.vol[1][1][1] # result.vol[1][2][2]

(***************************************************************************)
(* C9: once a frame of a constructed collection has been changed from      *)
(* outside so that the frames no longer have one shape, as_array, the data *)
(* property and the reductions that read it fail instead of returning a    *)
(* volume or a frame.                                                      *)
(***************************************************************************)
C9_ShapeRecheckedAtCallTime ==
    (/\ op.name \in {"as_array", "data", "mean"}
     /\ cube.exists /\ Size >= 1 /\ ~AllMapsSameShape(heap, cube)
     /\ op.name = "mean" => op.index < Size) =>
        result.kind = "error" /\ result.type = "ValueError"

\* The value each frame of C holds for the key of the meta call just made.
ValuesOfKey == [i \in 1..Size |-> MetaGet(FrameAt(i).meta, op.key)]

AllEqual(s) == \A i, j \in 1..Len(s) : s[i] = s[j]

(***************************************************************************)
(* C10: for a collection with frames, meta(key) returns one collapsed      *)
(* value (a list holding it) exactly when every frame holds an equal value *)
(* for key, and otherwise the values of all frames in collection order.    *)
(***************************************************************************)
C10_MetaCollapses ==
    (op.name = "meta" /\ cube.exists /\ Size >= 1) =>
        /\ result.kind = "list"
        /\ AllEqual(ValuesOfKey) => result.val = <<ValuesOfKey[1]>>
        /\ ~AllEqual(ValuesOfKey) => result.val = ValuesOfKey

\* Both cases on collections of two frames or more: one date collapsed, and
\* differing dates returned in full.
C10_Witness ==
    /\ op.name = "meta" /\ cube.exists /\ Size >= 2 /\ op.key = "date"
    /\ ~AllEqual(ValuesOfKey)
    /\ Len(result.val) = Size

\* The positions (from 0) of C that the key of the getitem call just made
\* selects, in the order the key selects them.
Selected ==
    IF op.key = "int" THEN <<PyNorm(op.k, Size)>>
    ELSE IF op.key = "slice"
         THEN [j \in 1..Max2(0, Min2(op.hi, Size) - op.lo) |-> op.lo + j - 1]
    ELSE IF op.key = "reversed" THEN [j \in 1..Size |-> Size - j]
    ELSE op.idx

SelectsFrames ==
    /\ Selected # <<>>
    /\ \A j \in 1..Len(Selected) : Selected[j] >= 0 /\ Selected[j] < Size

(***************************************************************************)
(* C11: C[i] for a scalar index is the i-th frame itself; for a range or a *)
(* sequence of indices (selecting frames of C) the result is a new         *)
(* collection whose j-th frame is the frame of C the j-th index selects    *)
(* (the same object, the same order), its metadata list in lockstep.       *)
(***************************************************************************)
C11_IndexingPolymorphic ==
    (op.name = "getitem" /\ Uniform /\ SelectsFrames) =>
        IF op.key = "int"
        THEN result.kind = "frame" /\ result.id = cube.maps[Selected[1] + 1]
        ELSE /\ result.kind = "cube"
             /\ Len(result.cube.maps) = Len(Selected)
             /\ \A j \in 1..Len(Selected) :
                  /\ result.cube.maps[j] = cube.maps[Selected[j] + 1]
                  /\ result.cube.meta[j] = FrameAt(Selected[j] + 1).meta

\* The methods that produce a cube or a frame from C.
Transformations ==
    {"submap", "resample", "subcube", "running_difference", "base_difference", "mean"}

(***************************************************************************)
(* C12: every transformation leaves its input as it was (C's frame list,   *)
(* its metadata list, the data and metadata of its frames), and one that   *)
(* returns a cube returns a new collection of new frames, not C itself and *)
(* no frame of C.                                                          *)
(***************************************************************************)
C12_TransformationsPure ==
    [][(op'.name \in Transformations /\ op.name = "idle") =>
         /\ cube' = cube
         /\ SubSeq(heap', 1, owned) = heap
         /\ result'.kind # "self"
         /\ result'.kind = "cube" =>
              \A j \in 1..Len(result'.cube.maps) : result'.cube.maps[j] > owned]_vars

\* The artists made so far by the overlay callback of the animation.
Artists == 1..Len(result.removals)

(***************************************************************************)
(* C13: over any sequence of renders of the animation, no overlay artist   *)
(* is removed more than once; from the end of the removal loop until the   *)
(* callback runs (so when the image of the frame is set) every artist      *)
(* returned for earlier renders has been removed exactly once and none is  *)
(* on the plot; right after a render the artists on the plot are exactly   *)
(* those the callback returned for it, not yet removed.                    *)
(***************************************************************************)
C13_OverlayLifecycle ==
    result.kind = "animation" =>
        /\ \A a \in Artists : result.removals[a] <= 1
        /\ result.pc \in {"cleared", "image"} =>
             /\ result.drawn = {}
             /\ \A a \in Artists : result.removals[a] = 1
        /\ result.pc = "idle" =>
             /\ result.drawn = result.last
             /\ \A a \in Artists : result.removals[a] = IF a \in result.last THEN 0 ELSE 1

C13_Witness ==
    /\ result.kind = "animation"
    /\ result.pc = "idle"
    /\ result.renders >= 2
    /\ Cardinality(result.last) = MaxOverlays
    /\ Cardinality(Artists) > Cardinality(result.last)
    /\ result.image = heap[cube.maps[result.i + 1]].data

====
